---- MODULE Spec2Model ----
(***************************************************************************)
(* TcpVelocity server (demo/TCP速度/TcpVelocity/server).                    *)
(*                                                                         *)
(* Three cooperating pieces are modelled, each with its own specification: *)
(*   SpecIPC  ipc_utils.py   IPCManager, queue_consumer_loop,              *)
(*                           watch_and_restart and the producer processes  *)
(*   SpecHub  base_server.py BaseWebSocketServer (subscriber set, fan-out) *)
(*   SpecKV   state.py       SharedState (pending buffer, flush, get)      *)
(*                                                                         *)
(* The main process runs one asyncio event loop: a coroutine runs from one *)
(* suspension point to the next without interleaving with the other tasks  *)
(* of the loop, so one action is one such run.  The producer processes and *)
(* the flush thread run in parallel with it.                               *)
(***************************************************************************)
EXTENDS Integers, Sequences, FiniteSets, TLC

\* ------------------------------------------------------------------ bounds
MaxStarts == 2      \* calls of IPCManager.start()
MaxProcs  == 3      \* producer processes ever spawned
MaxItems  == 2      \* items ever put on a channel
MaxClients == 3     \* WebSocket connections
MaxVal == 2         \* values passed to SharedState.set are 1..MaxVal
MaxSamples == 3     \* messages handed to handle_cartesian_position
MaxTime == 4        \* last reading of time.perf_counter(), in ticks
MaxIncarnations == 2 \* robot processes, one after the other
MaxAttempts == 2    \* failed arm.connect calls of one robot process
Second == 2         \* clock ticks in one second

QIds == 1..MaxStarts
PIds == 1..MaxProcs
WS == 1..MaxClients

VARIABLES
    \* ---- IPCManager fields (0 stands for None)
    queue,          \* self._queue: id of the multiprocessing.Queue object
    proc,           \* self._proc: id of the stored producer process
    consumer_task,  \* self._consumer_task: [id, pc, q, cancel]
    watcher_task,   \* self._watcher_task:  [id, pc, cancel]
    mgrPc,          \* where the caller of start()/stop() is
    \* ---- operating-system objects
    chan,           \* content of every Queue object: qid -> sequence of items
    procAlive,      \* Process.is_alive() of every spawned process
    procQ,          \* the Queue each process was spawned with
    isMpProcess,    \* isinstance(p, mp.Process) of what spawn_proc returns
    \* ---- counters that name objects
    starts,         \* start() calls so far
    spawned,        \* processes spawned so far
    nput,           \* items put so far
    \* ---- history
    procPred,       \* the stored process a replacement was spawned for
    enqLog,         \* items in the order they were enqueued
    startLog,       \* items in the order the handler was invoked on them
    endLog,         \* how each started handler call ended
    lastTick,       \* outcome of the watcher's last poll since the stored
                    \* process was spawned or died
    procAtCancel,   \* self._proc when stop() cancelled the tasks
    stopTarget,     \* the p that stop() read at line 214
    \* ---- tasks the manager holds no reference to any more
    orphan_consumer,    \* the consumer task a later start() has replaced
    orphan_watcher,     \* the watcher task a later start() has replaced
    \* ---- BaseWebSocketServer
    clients,        \* self._clients: the set of registered WebSockets
    clients_lock,   \* self._clients_lock: "free" or the coroutine holding it
    bpc,            \* broadcast(): "idle" or "sending" (suspended in a send)
    snapshot,       \* broadcast's local list `clients`
    idx,            \* position in the snapshot of the send in progress
    to_remove,      \* broadcast's local list of the failed sockets
    bresult,        \* how the last broadcast call ended
    attempts,       \* send_text calls per socket in the current broadcast
    failedRet,      \* sockets whose send failed in a broadcast that has
                    \* returned, and that were not registered since
    called_empty,   \* self._clients was empty when the last broadcast call
                    \* was made
    dumps,          \* json.dumps in the last broadcast call: "none" (not
                    \* called), "ok" or "raised"
    \* ---- SharedState (class attributes of the writing process) and files
    pending,        \* cls._pending: key -> value, None where the key is absent
    dirty,          \* cls._dirty
    fpc,            \* the flush thread: "none" (not started), "sleep",
                    \* "open", "writing", "dead"
    data,           \* _flush_to_file's local `data` (empty outside a flush)
    file,           \* the canonical file state.json: [exists, text]
    tmp,            \* the temporary file state.json.tmp: [exists, text]
    \* ---- a get() call (in the robot process or any other)
    rpc,            \* "idle" or "open" (os.path.exists was true)
    rkey,           \* the key asked for
    getResult,      \* what the last get returned
    getParsed,      \* whether json.load of the last get succeeded
    \* ---- history
    setHist,        \* key -> the last value passed to set in this process,
                    \* else the value the file had when the process started
    beganSnap,      \* setHist when the flush in progress took the lock
                    \* (empty outside a flush)
    committed,      \* key -> the last value set before the last completed
                    \* flush began, else the value the file started with
    getExpected,    \* committed[rkey] at the moment the last get read
    flushDone,      \* a flush has run to its end
    \* ---- the robot process: RobotService and its clock
    now,            \* time.perf_counter(), in ticks
    rbPc,           \* connect_robot: "connecting", "subscribing",
                    \* "receiving"; "exited" when robot_main has returned
    incarnation,    \* which robot process this is (1, 2, ...)
    last_pose,      \* self._last_pose
    last_time,      \* self._last_time
    last_tcp_velocity,              \* self._last_tcp_velocity
    last_sync_tcp_velocity_time,    \* self._last_sync_tcp_velocity_time
    emitted,        \* the last message this process handed to
                    \* self.broadcast
    \* ---- history
    nemitted,       \* calls of self.broadcast by this process
    handled,        \* the last call of handle_cartesian_position in this
                    \* process
    nhandled,       \* calls of handle_cartesian_position so far
    seen,           \* position and clock of the last well-formed message
                    \* this process has handled
    strict,         \* every well-formed message of this process came at a
                    \* later clock reading than the one before
    connects,       \* arm.connect calls of the connect loop in progress
    attemptEnd,     \* clock at the end of its last iteration
    lastConnect,    \* outcome of its last arm.connect
    disconnectedAfter   \* outcome of the arm.connect that the last
                        \* arm.disconnect() followed

ipcVars == << queue, proc, consumer_task, watcher_task, mgrPc, chan, procAlive,
              procQ, isMpProcess, starts, spawned, nput, procPred, enqLog,
              startLog, endLog, lastTick, procAtCancel, stopTarget >>

hubVars == << clients, clients_lock, bpc, snapshot, idx, to_remove, bresult,
              attempts, failedRet, called_empty, dumps >>

kvVars == << pending, dirty, fpc, data, file, tmp, rpc, rkey, getResult,
             getParsed, setHist, beganSnap, committed, getExpected,
             flushDone >>

robotVars == << now, rbPc, incarnation, last_pose, last_time,
                last_tcp_velocity, last_sync_tcp_velocity_time, emitted,
                nemitted, handled, nhandled, seen, strict, connects,
                attemptEnd, lastConnect, disconnectedAfter >>

orphanVars == << orphan_consumer, orphan_watcher >>

vars == << ipcVars, orphanVars, hubVars, kvVars, robotVars >>

\* What the actions of one component leave alone.  The tasks of ipcVars never
\* touch the replaced ones.
notManager == << hubVars, kvVars, robotVars >>
notIPC == << orphanVars, notManager >>
notHub == << ipcVars, orphanVars, kvVars, robotVars >>
notKV == << ipcVars, orphanVars, hubVars, robotVars >>
notRobot == << ipcVars, orphanVars, hubVars, kvVars >>

NoTask == [id |-> 0, pc |-> "none", q |-> 0, cancel |-> FALSE]

InitIPC ==
    /\ queue = 0
    /\ proc = 0
    /\ consumer_task = NoTask
    /\ watcher_task = NoTask
    /\ mgrPc = "new"
    /\ chan = [q \in QIds |-> << >>]
    /\ procAlive = [p \in PIds |-> FALSE]
    /\ procQ = [p \in PIds |-> 0]
    /\ isMpProcess \in BOOLEAN
    /\ starts = 0
    /\ spawned = 0
    /\ nput = 0
    /\ procPred = [p \in PIds |-> 0]
    /\ enqLog = << >>
    /\ startLog = << >>
    /\ endLog = << >>
    /\ lastTick = "none"
    /\ procAtCancel = 0
    /\ stopTarget = 0
    /\ orphan_consumer = NoTask
    /\ orphan_watcher = NoTask

\* ------------------------------------------------------------ event loop
\* The loop thread is free when no coroutine is in the middle of a run.  The
\* consumer is the one coroutine that can come back to its loop head without
\* having suspended (the handler returned or raised without awaiting).
LoopFree == consumer_task.pc # "running" /\ orphan_consumer.pc # "running"

\* Task.cancel(): the next resumption of the task raises CancelledError at
\* the await it is suspended on, instead of running the coroutine further.
Resumable(t) == ~t.cancel

\* ---------------------------------------------------------------- spawn
\* spawn_proc(q) -> start_process(): a new process object, started.
SpawnEffect(q, pred) ==
    LET p == spawned + 1 IN
    /\ spawned' = p
    /\ procAlive' = [procAlive EXCEPT ![p] = TRUE]
    /\ procQ' = [procQ EXCEPT ![p] = q]
    /\ procPred' = [procPred EXCEPT ![p] = pred]

\* Mutant of RestartQueue: the replacement is given another Queue object.
RestartQueueOther == (queue % MaxStarts) + 1

\* IPCManager._restart: the replacement is spawned on the existing queue.
RestartQueue == queue

\* Mutant of SetProc: the replacement is not stored.
SetProcDropped(p) == proc

\* IPCManager._set_proc(p): what self._proc is afterwards.
SetProc(p) == p

\* Mutant of AfterFactoryError: the exception leaves the watcher coroutine.
FactoryErrorEscapes == "done"

\* except Exception around restart_factory()/set_proc(): the failure is
\* logged and the loop goes on to its sleep.
AfterFactoryError == "sleeping"

\* ---------------------------------------------------- IPCManager.start
NewTask(n, q) == [id |-> n, pc |-> "ready", q |-> q, cancel |-> FALSE]

\* start() has no await: it runs as one step of the loop.  spawn_proc is
\* called after the queue is stored and before the tasks are created.
StartOk ==
    /\ mgrPc \in {"new", "stopped"}
    /\ LoopFree
    /\ starts < MaxStarts
    /\ spawned < MaxProcs
    /\ starts' = starts + 1
    /\ queue' = starts + 1
    /\ SpawnEffect(starts + 1, 0)
    /\ proc' = spawned + 1
    /\ consumer_task' = NewTask(starts + 1, starts + 1)
    /\ watcher_task' = NewTask(starts + 1, 0)
    /\ mgrPc' = "running"
    /\ lastTick' = "none"
    /\ UNCHANGED << chan, isMpProcess, nput, enqLog, startLog, endLog,
                    procAtCancel, stopTarget >>
    /\ UNCHANGED notIPC

\* spawn_proc raises inside start(): the new queue is stored, nothing else.
StartFail ==
    /\ mgrPc \in {"new", "stopped"}
    /\ LoopFree
    /\ starts < MaxStarts
    /\ starts' = starts + 1
    /\ queue' = starts + 1
    /\ UNCHANGED << proc, consumer_task, watcher_task, mgrPc, chan, procAlive,
                    procQ, isMpProcess, spawned, nput, procPred, enqLog,
                    startLog, endLog, lastTick, procAtCancel, stopTarget >>
    /\ UNCHANGED notIPC

\* ------------------------------------------------------ producer process
\* robot_main -> _queue_broadcast -> async_queue_put: q.put(item).
ProcPut(p) ==
    /\ p <= spawned
    /\ procAlive[p]
    /\ nput < MaxItems
    /\ LET item == [id |-> nput + 1, src |-> p] IN
        /\ chan' = [chan EXCEPT ![procQ[p]] = Append(@, item)]
        /\ enqLog' = Append(enqLog, item)
    /\ nput' = nput + 1
    /\ UNCHANGED << queue, proc, consumer_task, watcher_task, mgrPc, procAlive,
                    procQ, isMpProcess, starts, spawned, procPred, startLog,
                    endLog, lastTick, procAtCancel, stopTarget >>
    /\ UNCHANGED notIPC

\* The process ends on its own: robot_main returns (connect_robot raised) or
\* the process crashes or is killed from outside.
ProcExit(p) ==
    /\ p <= spawned
    /\ procAlive[p]
    /\ procAlive' = [procAlive EXCEPT ![p] = FALSE]
    /\ lastTick' = IF p = proc THEN "none" ELSE lastTick
    /\ UNCHANGED << queue, proc, consumer_task, watcher_task, mgrPc, chan,
                    procQ, isMpProcess, starts, spawned, nput, procPred,
                    enqLog, startLog, endLog, procAtCancel, stopTarget >>
    /\ UNCHANGED notIPC

\* --------------------------------------------------- queue_consumer_loop
\* q.get_nowait(): the item at the head of the queue, removed.
QueueGet(s) == [item |-> Head(s), rest |-> Tail(s)]

\* Mutant of ConsumerCanRun: the handler call is not awaited, the loop goes
\* on to the next item while the call is still suspended.
ConsumerCanRunNoAwait ==
    /\ consumer_task.pc \in {"ready", "sleeping", "running", "handling"}
    /\ Resumable(consumer_task)
    /\ (consumer_task.pc = "running" \/ LoopFree)

\* The consumer is at its loop head or asleep, and may run.
ConsumerCanRun ==
    /\ consumer_task.pc \in {"ready", "sleeping", "running"}
    /\ Resumable(consumer_task)
    /\ (consumer_task.pc = "running" \/ LoopFree)

\* Mutant of AfterHandler: an exception of the handler leaves the loop.
HandlerErrorEscapes(out) == IF out = "raise" THEN "done" ELSE "running"

\* try: await handler(item) / except Exception: logger.exception(...): whether
\* the handler returned or raised, the while loop goes round.
AfterHandler(out) == "running"

\* get_nowait raises Empty: await asyncio.sleep(poll_interval).
ConsumerEmpty ==
    /\ ConsumerCanRun
    /\ chan[consumer_task.q] = << >>
    /\ consumer_task' = [consumer_task EXCEPT !.pc = "sleeping"]
    /\ UNCHANGED << queue, proc, watcher_task, mgrPc, chan, procAlive, procQ,
                    isMpProcess, starts, spawned, nput, procPred, enqLog,
                    startLog, endLog, lastTick, procAtCancel, stopTarget >>
    /\ UNCHANGED notIPC

\* get_nowait returns an item: await handler(item).  The handler returns or
\* raises without suspending (the loop goes round without yielding), or it
\* suspends on I/O.
ConsumerGet ==
    /\ ConsumerCanRun
    /\ chan[consumer_task.q] # << >>
    /\ LET g == QueueGet(chan[consumer_task.q]) IN
        /\ chan' = [chan EXCEPT ![consumer_task.q] = g.rest]
        /\ startLog' = Append(startLog, g.item)
    /\ \E out \in {"return", "raise", "suspend"} :
        IF out = "suspend"
        THEN /\ consumer_task' = [consumer_task EXCEPT !.pc = "handling"]
             /\ endLog' = endLog
        ELSE /\ consumer_task' = [consumer_task EXCEPT
                                     !.pc = AfterHandler(out)]
             /\ endLog' = Append(endLog, out)
    /\ UNCHANGED << queue, proc, watcher_task, mgrPc, procAlive, procQ,
                    isMpProcess, starts, spawned, nput, procPred, enqLog,
                    lastTick, procAtCancel, stopTarget >>
    /\ UNCHANGED notIPC

\* The suspended handler is resumed and returns or raises (except Exception:
\* pass); the loop goes on to its next get_nowait in the same run.
HandlerResume ==
    /\ consumer_task.pc = "handling"
    /\ Resumable(consumer_task)
    /\ \E out \in {"return", "raise"} :
        /\ endLog' = Append(endLog, out)
        /\ consumer_task' = [consumer_task EXCEPT !.pc = AfterHandler(out)]
    /\ UNCHANGED << queue, proc, watcher_task, mgrPc, chan, procAlive, procQ,
                    isMpProcess, starts, spawned, nput, procPred, enqLog,
                    startLog, lastTick, procAtCancel, stopTarget >>
    /\ UNCHANGED notIPC

\* CancelledError is raised at the await the consumer is suspended on; it is
\* no Exception, so neither try block catches it and the task ends.
ConsumerCancelled ==
    /\ consumer_task.pc \in {"ready", "sleeping", "handling"}
    /\ consumer_task.cancel
    /\ endLog' = IF consumer_task.pc = "handling"
                 THEN Append(endLog, "cancelled") ELSE endLog
    /\ consumer_task' = [consumer_task EXCEPT !.pc = "done"]
    /\ UNCHANGED << queue, proc, watcher_task, mgrPc, chan, procAlive, procQ,
                    isMpProcess, starts, spawned, nput, procPred, enqLog,
                    startLog, lastTick, procAtCancel, stopTarget >>
    /\ UNCHANGED notIPC

\* ----------------------------------------------------- watch_and_restart
WatcherCanRun ==
    /\ watcher_task.pc \in {"ready", "sleeping"}
    /\ Resumable(watcher_task)
    /\ LoopFree

\* need_restart = (p is None) or (not p.is_alive())
NeedRestart == proc = 0 \/ ~procAlive[proc]

\* The stored process is alive: nothing but the sleep.
WatcherAlive ==
    /\ WatcherCanRun
    /\ ~NeedRestart
    /\ watcher_task' = [watcher_task EXCEPT !.pc = "sleeping"]
    /\ lastTick' = "alive"
    /\ UNCHANGED << queue, proc, consumer_task, mgrPc, chan, procAlive, procQ,
                    isMpProcess, starts, spawned, nput, procPred, enqLog,
                    startLog, endLog, procAtCancel, stopTarget >>
    /\ UNCHANGED notIPC

\* new_p = restart_factory(); set_proc(new_p)
WatcherRestart ==
    /\ WatcherCanRun
    /\ NeedRestart
    /\ spawned < MaxProcs
    /\ SpawnEffect(RestartQueue, proc)
    /\ proc' = SetProc(spawned + 1)
    /\ watcher_task' = [watcher_task EXCEPT !.pc = "sleeping"]
    /\ lastTick' = "restarted"
    /\ UNCHANGED << queue, consumer_task, mgrPc, chan, isMpProcess, starts,
                    nput, enqLog, startLog, endLog, procAtCancel, stopTarget >>
    /\ UNCHANGED notIPC

\* restart_factory() raises: logged, then the sleep.
WatcherRestartFail ==
    /\ WatcherCanRun
    /\ NeedRestart
    /\ watcher_task' = [watcher_task EXCEPT !.pc = AfterFactoryError]
    /\ lastTick' = "failed"
    /\ UNCHANGED << queue, proc, consumer_task, mgrPc, chan, procAlive, procQ,
                    isMpProcess, starts, spawned, nput, procPred, enqLog,
                    startLog, endLog, procAtCancel, stopTarget >>
    /\ UNCHANGED notIPC

\* CancelledError at await asyncio.sleep(interval) (or before the first run).
WatcherCancelled ==
    /\ watcher_task.pc \in {"ready", "sleeping"}
    /\ watcher_task.cancel
    /\ watcher_task' = [watcher_task EXCEPT !.pc = "done"]
    /\ UNCHANGED << queue, proc, consumer_task, mgrPc, chan, procAlive, procQ,
                    isMpProcess, starts, spawned, nput, procPred, enqLog,
                    startLog, endLog, lastTick, procAtCancel, stopTarget >>
    /\ UNCHANGED notIPC

\* ----------------------------------------------------- IPCManager.stop
\* for task in (watcher, consumer): task.cancel(); then await gather(...)
StopCancel ==
    /\ mgrPc = "running"
    /\ LoopFree
    /\ consumer_task' = [consumer_task EXCEPT !.cancel = TRUE]
    /\ watcher_task' = [watcher_task EXCEPT !.cancel = TRUE]
    /\ mgrPc' = "stopping"
    /\ procAtCancel' = proc
    /\ UNCHANGED << queue, proc, chan, procAlive, procQ, isMpProcess, starts,
                    spawned, nput, procPred, enqLog, startLog, endLog,
                    lastTick, stopTarget >>
    /\ UNCHANGED notIPC

\* Mutant of GatherDone: stop() does not wait for the cancelled tasks.
GatherNotAwaited == TRUE

\* await asyncio.gather(watcher, consumer, return_exceptions=True) is over.
GatherDone == consumer_task.pc = "done" /\ watcher_task.pc = "done"

\* if p and isinstance(p, mp.Process): if p.is_alive(): terminate, join(2)
StopTerminates == proc # 0 /\ isMpProcess /\ procAlive[proc]

\* The process is not terminated: the guard of line 215 or 217 is false.
StopNoTerminate ==
    /\ mgrPc = "stopping"
    /\ GatherDone
    /\ ~StopTerminates
    /\ mgrPc' = "stopped"
    /\ stopTarget' = proc
    /\ UNCHANGED << queue, proc, consumer_task, watcher_task, chan, procAlive,
                    procQ, isMpProcess, starts, spawned, nput, procPred,
                    enqLog, startLog, endLog, lastTick, procAtCancel >>
    /\ UNCHANGED notIPC

\* p.terminate(); p.join(timeout=2): SIGTERM is sent and stop() waits at most
\* two seconds; the process has ended by then or it has not.
StopTerminate ==
    /\ mgrPc = "stopping"
    /\ GatherDone
    /\ StopTerminates
    /\ \E ended \in BOOLEAN :
        /\ procAlive' = [procAlive EXCEPT ![proc] = ~ended]
        /\ lastTick' = IF ended THEN "none" ELSE lastTick
    /\ mgrPc' = "stopped"
    /\ stopTarget' = proc
    /\ UNCHANGED << queue, proc, consumer_task, watcher_task, chan, procQ,
                    isMpProcess, starts, spawned, nput, procPred, enqLog,
                    startLog, endLog, procAtCancel >>
    /\ UNCHANGED notIPC

\* ------------------------------------------- start() on a running manager
\* start() has no guard on the state of the manager: called again before
\* stop(), it stores a new queue, a new process and two new tasks over the
\* old ones.  The old tasks go on running and the old process stays alive;
\* the model follows one replaced pair of tasks.
StartAgain ==
    /\ mgrPc = "running"
    /\ LoopFree
    /\ starts < MaxStarts
    /\ spawned < MaxProcs
    /\ orphan_consumer = NoTask
    /\ orphan_watcher = NoTask
    /\ starts' = starts + 1
    /\ queue' = starts + 1
    /\ SpawnEffect(starts + 1, 0)
    /\ proc' = spawned + 1
    /\ orphan_consumer' = consumer_task
    /\ orphan_watcher' = watcher_task
    /\ consumer_task' = NewTask(starts + 1, starts + 1)
    /\ watcher_task' = NewTask(starts + 1, 0)
    /\ lastTick' = "none"
    /\ UNCHANGED << mgrPc, chan, isMpProcess, nput, enqLog, startLog, endLog,
                    procAtCancel, stopTarget >>
    /\ UNCHANGED notManager

\* The replaced consumer polls the queue it was created with.
OrphanConsumerCanRun ==
    /\ orphan_consumer.pc \in {"ready", "sleeping", "running"}
    /\ (orphan_consumer.pc = "running" \/ LoopFree)

OrphanConsumerEmpty ==
    /\ OrphanConsumerCanRun
    /\ chan[orphan_consumer.q] = << >>
    /\ orphan_consumer' = [orphan_consumer EXCEPT !.pc = "sleeping"]
    /\ UNCHANGED << ipcVars, orphan_watcher >>
    /\ UNCHANGED notManager

OrphanConsumerGet ==
    /\ OrphanConsumerCanRun
    /\ chan[orphan_consumer.q] # << >>
    /\ LET g == QueueGet(chan[orphan_consumer.q]) IN
        /\ chan' = [chan EXCEPT ![orphan_consumer.q] = g.rest]
        /\ startLog' = Append(startLog, g.item)
    /\ \E out \in {"return", "raise", "suspend"} :
        IF out = "suspend"
        THEN /\ orphan_consumer' = [orphan_consumer EXCEPT !.pc = "handling"]
             /\ endLog' = endLog
        ELSE /\ orphan_consumer' = [orphan_consumer EXCEPT
                                       !.pc = AfterHandler(out)]
             /\ endLog' = Append(endLog, out)
    /\ UNCHANGED << queue, proc, consumer_task, watcher_task, mgrPc,
                    procAlive, procQ, isMpProcess, starts, spawned, nput,
                    procPred, enqLog, lastTick, procAtCancel, stopTarget,
                    orphan_watcher >>
    /\ UNCHANGED notManager

OrphanHandlerResume ==
    /\ orphan_consumer.pc = "handling"
    /\ LoopFree
    /\ \E out \in {"return", "raise"} :
        /\ endLog' = Append(endLog, out)
        /\ orphan_consumer' = [orphan_consumer EXCEPT !.pc = AfterHandler(out)]
    /\ UNCHANGED << queue, proc, consumer_task, watcher_task, mgrPc, chan,
                    procAlive, procQ, isMpProcess, starts, spawned, nput,
                    procPred, enqLog, startLog, lastTick, procAtCancel,
                    stopTarget, orphan_watcher >>
    /\ UNCHANGED notManager

\* The replaced watcher polls through the manager's accessors: it sees the
\* process and the queue the manager stores now.
OrphanWatcherCanRun ==
    /\ orphan_watcher.pc \in {"ready", "sleeping"}
    /\ LoopFree

OrphanWatcherAlive ==
    /\ OrphanWatcherCanRun
    /\ ~NeedRestart
    /\ orphan_watcher' = [orphan_watcher EXCEPT !.pc = "sleeping"]
    /\ lastTick' = "alive"
    /\ UNCHANGED << queue, proc, consumer_task, watcher_task, mgrPc, chan,
                    procAlive, procQ, isMpProcess, starts, spawned, nput,
                    procPred, enqLog, startLog, endLog, procAtCancel,
                    stopTarget, orphan_consumer >>
    /\ UNCHANGED notManager

OrphanWatcherRestart ==
    /\ OrphanWatcherCanRun
    /\ NeedRestart
    /\ spawned < MaxProcs
    /\ SpawnEffect(RestartQueue, proc)
    /\ proc' = SetProc(spawned + 1)
    /\ orphan_watcher' = [orphan_watcher EXCEPT !.pc = "sleeping"]
    /\ lastTick' = "restarted"
    /\ UNCHANGED << queue, consumer_task, watcher_task, mgrPc, chan,
                    isMpProcess, starts, nput, enqLog, startLog, endLog,
                    procAtCancel, stopTarget, orphan_consumer >>
    /\ UNCHANGED notManager

OrphanWatcherRestartFail ==
    /\ OrphanWatcherCanRun
    /\ NeedRestart
    /\ orphan_watcher' = [orphan_watcher EXCEPT !.pc = AfterFactoryError]
    /\ lastTick' = "failed"
    /\ UNCHANGED << queue, proc, consumer_task, watcher_task, mgrPc, chan,
                    procAlive, procQ, isMpProcess, starts, spawned, nput,
                    procPred, enqLog, startLog, endLog, procAtCancel,
                    stopTarget, orphan_consumer >>
    /\ UNCHANGED notManager

\* ------------------------------------------- a producer that never stops
\* The steps of the producer and of the consumer for a stream without end:
\* the same code as ProcPut, ConsumerGet and HandlerResume, with the logs of
\* the first MaxItems items left alone so that an endless run stays within
\* finitely many states.  MaxItems caps the items waiting in the channel.
StreamItem(p) == [id |-> 0, src |-> p]

\* robot_main -> _queue_broadcast -> async_queue_put: q.put(item).
ProcPutStream(p) ==
    /\ p <= spawned
    /\ procAlive[p]
    /\ Len(chan[procQ[p]]) < MaxItems
    /\ chan' = [chan EXCEPT ![procQ[p]] = Append(@, StreamItem(p))]
    /\ UNCHANGED << queue, proc, consumer_task, watcher_task, mgrPc, procAlive,
                    procQ, isMpProcess, starts, spawned, nput, procPred,
                    enqLog, startLog, endLog, lastTick, procAtCancel,
                    stopTarget >>
    /\ UNCHANGED notIPC

\* item = q.get_nowait(); await handler(item): the handler returns or raises
\* without suspending, and the while loop is at get_nowait again in the same
\* run (no await lies between), or the handler suspends on I/O.
ConsumerGetStream ==
    /\ ConsumerCanRun
    /\ chan[consumer_task.q] # << >>
    /\ chan' = [chan EXCEPT ![consumer_task.q] = QueueGet(@).rest]
    /\ \E out \in {"return", "raise", "suspend"} :
        consumer_task' = [consumer_task EXCEPT
                             !.pc = IF out = "suspend" THEN "handling"
                                    ELSE AfterHandler(out)]
    /\ UNCHANGED << queue, proc, watcher_task, mgrPc, procAlive, procQ,
                    isMpProcess, starts, spawned, nput, procPred, enqLog,
                    startLog, endLog, lastTick, procAtCancel, stopTarget >>
    /\ UNCHANGED notIPC

\* The suspended handler is resumed and returns or raises.
HandlerResumeStream ==
    /\ consumer_task.pc = "handling"
    /\ Resumable(consumer_task)
    /\ \E out \in {"return", "raise"} :
        consumer_task' = [consumer_task EXCEPT !.pc = AfterHandler(out)]
    /\ UNCHANGED << queue, proc, watcher_task, mgrPc, chan, procAlive, procQ,
                    isMpProcess, starts, spawned, nput, procPred, enqLog,
                    startLog, endLog, lastTick, procAtCancel, stopTarget >>
    /\ UNCHANGED notIPC

\* One poll of watch_and_restart, whatever it finds.
WatcherPoll == WatcherAlive \/ WatcherRestart \/ WatcherRestartFail

\* ------------------------------------------------------------------ SpecIPC
NextIPC ==
    \/ StartOk
    \/ StartFail
    \/ \E p \in PIds : ProcPut(p)
    \/ \E p \in PIds : ProcExit(p)
    \/ ConsumerEmpty
    \/ ConsumerGet
    \/ HandlerResume
    \/ ConsumerCancelled
    \/ WatcherAlive
    \/ WatcherRestart
    \/ WatcherRestartFail
    \/ WatcherCancelled
    \/ StopCancel
    \/ StopNoTerminate
    \/ StopTerminate

\* The manager with a producer that never stops.
NextIPCStream ==
    \/ StartOk
    \/ StartFail
    \/ \E p \in PIds : ProcPutStream(p)
    \/ \E p \in PIds : ProcExit(p)
    \/ ConsumerEmpty
    \/ ConsumerGetStream
    \/ HandlerResumeStream
    \/ ConsumerCancelled
    \/ WatcherAlive
    \/ WatcherRestart
    \/ WatcherRestartFail
    \/ WatcherCancelled
    \/ StopCancel
    \/ StopNoTerminate
    \/ StopTerminate

\* Any sequence of start() and stop() calls.
NextIPCAnyCalls ==
    \/ StartOk
    \/ StartFail
    \/ \E p \in PIds : ProcPut(p)
    \/ \E p \in PIds : ProcExit(p)
    \/ ConsumerEmpty
    \/ ConsumerGet
    \/ HandlerResume
    \/ ConsumerCancelled
    \/ WatcherAlive
    \/ WatcherRestart
    \/ WatcherRestartFail
    \/ WatcherCancelled
    \/ StopCancel
    \/ StopNoTerminate
    \/ StopTerminate
    \/ StartAgain
    \/ OrphanConsumerEmpty
    \/ OrphanConsumerGet
    \/ OrphanHandlerResume
    \/ OrphanWatcherAlive
    \/ OrphanWatcherRestart
    \/ OrphanWatcherRestartFail


\* ================================================== BaseWebSocketServer
Range(s) == {s[i] : i \in 1..Len(s)}

\* list(self._clients): the members of the set in some order.
ListOf(S) ==
    {s \in [1..Cardinality(S) -> S] : \A i, j \in 1..Cardinality(S) :
                                          i # j => s[i] # s[j]}

NoAttempts == [w \in WS |-> 0]

\* async with self._clients_lock: the lock is taken and released inside one
\* run of the coroutine (no await in the body), so it is free between steps.
LockFree == clients_lock = "free"

\* register_client
RegisterClient(w) ==
    /\ LockFree
    /\ clients' = clients \cup {w}
    /\ failedRet' = failedRet \ {w}
    /\ UNCHANGED << clients_lock, bpc, snapshot, idx, to_remove, bresult,
                    attempts >>
    /\ UNCHANGED << called_empty, dumps >>
    /\ UNCHANGED notHub

\* unregister_client
UnregisterClient(w) ==
    /\ LockFree
    /\ w \in clients
    /\ clients' = clients \ {w}
    /\ UNCHANGED << clients_lock, bpc, snapshot, idx, to_remove, bresult,
                    attempts, failedRet >>
    /\ UNCHANGED << called_empty, dumps >>
    /\ UNCHANGED notHub

\* json.dumps(body) raises (the body holds a value JSON cannot encode): the
\* exception leaves broadcast before the lock is taken.  json.dumps is the
\* first statement of broadcast, it runs whatever the subscriber set holds.
BroadcastRaise ==
    /\ bpc = "idle"
    /\ bresult' = "raised"
    /\ snapshot' = << >>
    /\ to_remove' = << >>
    /\ idx' = 0
    /\ attempts' = NoAttempts
    /\ called_empty' = (clients = {})
    /\ dumps' = "raised"
    /\ UNCHANGED << clients, clients_lock, bpc, failedRet >>
    /\ UNCHANGED notHub

\* json.dumps returned; under the lock the snapshot is empty.
\* if not clients: return
BroadcastEmpty ==
    /\ bpc = "idle"
    /\ LockFree
    /\ clients = {}
    /\ bresult' = "returned"
    /\ snapshot' = << >>
    /\ to_remove' = << >>
    /\ idx' = 0
    /\ attempts' = NoAttempts
    /\ called_empty' = (clients = {})
    /\ dumps' = "ok"
    /\ UNCHANGED << clients, clients_lock, bpc, failedRet >>
    /\ UNCHANGED notHub

\* Mutant of LockWhileSending: the sends run inside the async with block.
LockHeldWhileSending == "broadcast"

\* The async with block ends at line 44, before the loop of the sends: the
\* lock is free while broadcast is suspended in a send.
LockWhileSending == "free"

\* The snapshot is taken under the lock, the lock is released and the first
\* ws.send_text(message) is awaited.
BroadcastStart ==
    /\ bpc = "idle"
    /\ LockFree
    /\ clients # {}
    /\ \E snap \in ListOf(clients) :
        /\ snapshot' = snap
        /\ attempts' = [NoAttempts EXCEPT ![snap[1]] = 1]
    /\ idx' = 1
    /\ to_remove' = << >>
    /\ bpc' = "sending"
    /\ bresult' = "none"
    /\ called_empty' = (clients = {})
    /\ dumps' = "ok"
    /\ clients_lock' = LockWhileSending
    /\ UNCHANGED << clients, failedRet >>
    /\ UNCHANGED notHub

\* except Exception: to_remove.append(ws)
AfterSend(ok) == IF ok THEN to_remove ELSE Append(to_remove, snapshot[idx])

\* Mutant of SendRaises: the failure of a send is not caught.
SendFailureEscapes(ok) == ~ok

\* Does the failure of a send leave broadcast as an exception?  It is caught.
SendRaises(ok) == FALSE

\* The send in progress ends (delivered or failed) and the next one starts.
SendNext ==
    /\ bpc = "sending"
    /\ idx < Len(snapshot)
    /\ \E ok \in BOOLEAN :
        IF SendRaises(ok)
        THEN /\ bpc' = "idle"
             /\ bresult' = "raised"
             /\ UNCHANGED << to_remove, idx, attempts >>
        ELSE /\ to_remove' = AfterSend(ok)
             /\ idx' = idx + 1
             /\ attempts' = [attempts EXCEPT ![snapshot[idx + 1]] = @ + 1]
             /\ UNCHANGED << bpc, bresult >>
    /\ UNCHANGED << clients, clients_lock, snapshot, failedRet >>
    /\ UNCHANGED << called_empty, dumps >>
    /\ UNCHANGED notHub

\* Mutant of Cleanup: the failed sockets are not discarded.
CleanupSkipped(tr) == clients

\* if to_remove: under the lock, self._clients.discard(ws) for each of them
Cleanup(tr) == clients \ Range(tr)

\* The last send ends; the failed sockets are discarded and broadcast returns.
SendLast ==
    /\ bpc = "sending"
    /\ idx = Len(snapshot)
    /\ LockFree
    /\ \E ok \in BOOLEAN :
        IF SendRaises(ok)
        THEN /\ bresult' = "raised"
             /\ UNCHANGED << to_remove, clients, failedRet >>
        ELSE /\ to_remove' = AfterSend(ok)
             /\ clients' = Cleanup(AfterSend(ok))
             /\ failedRet' = failedRet \cup Range(AfterSend(ok))
             /\ bresult' = "returned"
    /\ bpc' = "idle"
    /\ UNCHANGED << clients_lock, snapshot, idx, attempts >>
    /\ UNCHANGED << called_empty, dumps >>
    /\ UNCHANGED notHub

\* The task running broadcast is cancelled while a send is awaited:
\* CancelledError is no Exception, it leaves broadcast at once.
BroadcastCancelled ==
    /\ bpc = "sending"
    /\ bpc' = "idle"
    /\ bresult' = "cancelled"
    /\ UNCHANGED << clients, clients_lock, snapshot, idx, to_remove, attempts,
                    failedRet >>
    /\ UNCHANGED << called_empty, dumps >>
    /\ UNCHANGED notHub

InitHub ==
    /\ clients = {}
    /\ clients_lock = "free"
    /\ bpc = "idle"
    /\ snapshot = << >>
    /\ idx = 0
    /\ to_remove = << >>
    /\ bresult = "none"
    /\ attempts = NoAttempts
    /\ failedRet = {}
    /\ called_empty = FALSE
    /\ dumps = "none"

NextHub ==
    \/ \E w \in WS : RegisterClient(w)
    \/ \E w \in WS : UnregisterClient(w)
    \/ BroadcastRaise
    \/ BroadcastEmpty
    \/ BroadcastStart
    \/ SendNext
    \/ SendLast
    \/ BroadcastCancelled

\* ============================================================ SharedState
\* Keys of the state file, in the order json.dump writes them.
KeySeq == << "tcp_velocity_r_index", "other" >>
Keys == Range(KeySeq)
None == 0
Vals == 1..MaxVal
Maps == [Keys -> Vals \cup {None}]
EmptyMap == [k \in Keys |-> None]

\* ---- JSON text: a sequence of the chunks json.dump hands to f.write
Chunk(t, k, v) == [t |-> t, k |-> k, v |-> v]
NoFile == [exists |-> FALSE, text |-> << >>]

RECURSIVE Entries(_, _)
Entries(m, i) ==
    IF i > Len(KeySeq) THEN << >>
    ELSE (IF m[KeySeq[i]] = None THEN << >>
          ELSE << Chunk("entry", KeySeq[i], m[KeySeq[i]]) >>)
         \o Entries(m, i + 1)

\* json.dump(data, f, ensure_ascii=False, indent=4)
JsonDump(m) == << Chunk("{", "", 0) >> \o Entries(m, 1) \o << Chunk("}", "", 0) >>

\* json.load(f) returns a dict: the text opens with "{", closes with "}" and
\* holds entries in between.
JsonValid(text) ==
    /\ Len(text) >= 2
    /\ text[1].t = "{"
    /\ text[Len(text)].t = "}"
    /\ \A i \in 2..(Len(text) - 1) : text[i].t = "entry"

\* json.load(f) returns a value that is no dict: the text is a whole JSON
\* document of another type, here the array [].  Any text that is neither
\* JsonValid nor JsonOther makes json.load raise JSONDecodeError.
JsonOther(text) == Len(text) = 1 /\ text[1].t = "array"

JsonLoad(text) ==
    [k \in Keys |->
        IF \E i \in 1..Len(text) : text[i].t = "entry" /\ text[i].k = k
        THEN text[CHOOSE i \in 1..Len(text) :
                    /\ text[i].t = "entry" /\ text[i].k = k
                    /\ \A j \in (i + 1)..Len(text) :
                          ~(text[j].t = "entry" /\ text[j].k = k)].v
        ELSE None]

\* Mutant of GetValue: get answers from the pending buffer when it can.
GetValueReadsPending(f, k) ==
    IF pending[k] # None THEN pending[k]
    ELSE IF ~f.exists THEN None
    ELSE IF ~JsonValid(f.text) THEN None
    ELSE JsonLoad(f.text)[k]

\* SharedState.get(key, default=None) on a file as it is now.
GetValue(f, k) ==
    IF ~f.exists THEN None
    ELSE IF ~JsonValid(f.text) THEN None
    ELSE JsonLoad(f.text)[k]

\* ---- set
\* _init() starts the flush thread on the first call.
InitThread(pc) == IF pc = "none" THEN "sleep" ELSE pc

Set(k, v) ==
    /\ pending' = [pending EXCEPT ![k] = v]
    /\ dirty' = TRUE
    /\ fpc' = InitThread(fpc)
    /\ setHist' = [setHist EXCEPT ![k] = v]
    /\ UNCHANGED << data, file, tmp, rpc, rkey, getResult, getParsed,
                    beganSnap, committed, getExpected,
                    flushDone >>
    /\ UNCHANGED notKV

\* ---- _flush_to_file
\* if not cls._dirty: return
FlushNotDirty ==
    /\ fpc = "sleep"
    /\ ~dirty
    /\ UNCHANGED kvVars
    /\ UNCHANGED notKV

\* data = {} or the content of the existing file
ReadExisting(f) ==
    IF f.exists /\ JsonValid(f.text) THEN JsonLoad(f.text) ELSE EmptyMap

\* Mutant of Merge: the flush writes the pending entries alone.
MergeDropsOld(old, pend) == pend

\* for k, v in cls._pending.items(): data[k] = v
Merge(old, pend) == [k \in Keys |-> IF pend[k] # None THEN pend[k] ELSE old[k]]

\* Under the lock: read the file, merge, clear pending and the dirty flag.
FlushTake ==
    /\ fpc = "sleep"
    /\ dirty
    /\ ~(file.exists /\ JsonOther(file.text))
    /\ data' = Merge(ReadExisting(file), pending)
    /\ pending' = EmptyMap
    /\ dirty' = FALSE
    /\ fpc' = "open"
    /\ beganSnap' = setHist
    /\ UNCHANGED << file, tmp, rpc, rkey, getResult, getParsed, setHist,
                    committed, getExpected,
                    flushDone >>
    /\ UNCHANGED notKV

\* open(tmp, "w"): the temporary file is created or truncated.
FlushOpen ==
    /\ fpc = "open"
    /\ tmp' = [exists |-> TRUE, text |-> << >>]
    /\ fpc' = "writing"
    /\ UNCHANGED << pending, dirty, data, file, rpc, rkey, getResult,
                    getParsed, setHist, beganSnap, committed, getExpected,
                    flushDone >>
    /\ UNCHANGED notKV

\* Mutant of WriteTarget: the flush writes into the canonical file.
WriteTargetCanonical == "file"

\* The file the written text goes to.
WriteTarget == "tmp"

\* json.dump: the next chunk reaches the file.
FlushWrite ==
    /\ fpc = "writing"
    /\ Len(tmp.text) < Len(JsonDump(data))
    /\ tmp' = [tmp EXCEPT !.text = Append(@, JsonDump(data)[Len(@) + 1])]
    /\ file' = IF WriteTarget = "tmp" THEN file ELSE tmp'
    /\ UNCHANGED << pending, dirty, fpc, data, rpc, rkey, getResult,
                    getParsed, setHist, beganSnap, committed, getExpected,
                    flushDone >>
    /\ UNCHANGED notKV

\* The file is closed; os.replace(tmp, cls._file_path).
FlushReplace ==
    /\ fpc = "writing"
    /\ Len(tmp.text) = Len(JsonDump(data))
    /\ file' = tmp
    /\ tmp' = NoFile
    /\ fpc' = "sleep"
    /\ committed' = beganSnap
    /\ flushDone' = TRUE
    /\ data' = EmptyMap
    /\ beganSnap' = EmptyMap
    /\ UNCHANGED << pending, dirty, rpc, rkey, getResult, getParsed, setHist,
                    getExpected >>
    /\ UNCHANGED notKV

\* open, write or os.replace raises OSError: nothing catches it in
\* _flush_to_file or in _flush_worker, the flush thread ends.
FlushFail ==
    /\ fpc \in {"open", "writing"}
    /\ fpc' = "dead"
    /\ data' = EmptyMap
    /\ beganSnap' = EmptyMap
    /\ UNCHANGED << pending, dirty, file, tmp, rpc, rkey, getResult,
                    getParsed, setHist, committed, getExpected,
                    flushDone >>
    /\ UNCHANGED notKV

\* The writing process dies at any point and is started again: the class
\* attributes are those of a fresh interpreter, the files are as they were.
Crash ==
    /\ pending' = EmptyMap
    /\ dirty' = FALSE
    /\ fpc' = "none"
    /\ data' = EmptyMap
    /\ setHist' = committed
    /\ beganSnap' = EmptyMap
    /\ UNCHANGED << file, tmp, rpc, rkey, getResult, getParsed, committed,
                    getExpected,
                    flushDone >>
    /\ UNCHANGED notKV

\* ---- get
\* if not os.path.exists(cls._file_path): return default
GetAbsent(k) ==
    /\ rpc = "idle"
    /\ ~file.exists
    /\ rkey' = k
    /\ getResult' = None
    /\ getParsed' = "none"
    /\ getExpected' = committed[k]
    /\ UNCHANGED << pending, dirty, fpc, data, file, tmp, rpc, setHist,
                    beganSnap, committed,
                    flushDone >>
    /\ UNCHANGED notKV

GetExists(k) ==
    /\ rpc = "idle"
    /\ file.exists
    /\ rkey' = k
    /\ rpc' = "open"
    /\ UNCHANGED << pending, dirty, fpc, data, file, tmp, getResult,
                    getParsed, setHist, beganSnap, committed, getExpected,
                    flushDone >>
    /\ UNCHANGED notKV

\* open(...); json.load(f); return data.get(key, default)
GetRead ==
    /\ rpc = "open"
    /\ ~JsonOther(file.text)
    /\ getResult' = GetValue(file, rkey)
    /\ getParsed' = IF JsonValid(file.text) THEN "ok" ELSE "error"
    /\ getExpected' = committed[rkey]
    /\ rpc' = "idle"
    /\ UNCHANGED << pending, dirty, fpc, data, file, tmp, rkey, setHist,
                    beganSnap, committed,
                    flushDone >>
    /\ UNCHANGED notKV

\* The state file of an earlier run: none, or a snapshot a flush wrote.
InitKV ==
    /\ pending = EmptyMap
    /\ dirty = FALSE
    /\ fpc = "none"
    /\ data = EmptyMap
    /\ \E m \in Maps :
        /\ file \in {NoFile, [exists |-> TRUE, text |-> JsonDump(m)]}
        /\ committed = IF file.exists THEN m ELSE EmptyMap
    /\ tmp = NoFile
    /\ rpc = "idle"
    /\ rkey = KeySeq[1]
    /\ getResult = None
    /\ getParsed = "none"
    /\ setHist = committed
    /\ beganSnap = EmptyMap
    /\ getExpected = None
    /\ flushDone = FALSE

\* ---- a state file that is no snapshot of a flush
\* get: open or read raises OSError (the file cannot be read); the except
\* clause of get returns the default.
GetOpenError ==
    /\ rpc = "open"
    /\ getResult' = None
    /\ getParsed' = "oserror"
    /\ getExpected' = committed[rkey]
    /\ rpc' = "idle"
    /\ UNCHANGED << pending, dirty, fpc, data, file, tmp, rkey, setHist,
                    beganSnap, committed, flushDone >>
    /\ UNCHANGED notKV

\* get: json.load returns a list, data.get raises AttributeError, which the
\* except clause (json.JSONDecodeError, OSError) does not catch.
GetRaise ==
    /\ rpc = "open"
    /\ JsonOther(file.text)
    /\ getParsed' = "raised"
    /\ getExpected' = committed[rkey]
    /\ rpc' = "idle"
    /\ UNCHANGED << pending, dirty, fpc, data, file, tmp, rkey, getResult,
                    setHist, beganSnap, committed, flushDone >>
    /\ UNCHANGED notKV

\* _flush_to_file: open or json.load raises OSError; only JSONDecodeError is
\* caught, the exception leaves _flush_to_file (the lock is released, pending
\* and the dirty flag are as they were) and _flush_worker: the thread ends.
FlushReadError ==
    /\ fpc = "sleep"
    /\ dirty
    /\ file.exists
    /\ fpc' = "dead"
    /\ UNCHANGED << pending, dirty, data, file, tmp, rpc, rkey, getResult,
                    getParsed, setHist, beganSnap, committed, getExpected,
                    flushDone >>
    /\ UNCHANGED notKV

\* _flush_to_file: json.load returns a list, data[k] = v raises TypeError
\* for the first pending key; the thread ends the same way.
FlushMergeError ==
    /\ fpc = "sleep"
    /\ dirty
    /\ file.exists
    /\ JsonOther(file.text)
    /\ fpc' = "dead"
    /\ UNCHANGED << pending, dirty, data, file, tmp, rpc, rkey, getResult,
                    getParsed, setHist, beganSnap, committed, getExpected,
                    flushDone >>
    /\ UNCHANGED notKV

\* The strict prefixes of a text: what is left of a file cut short.
Truncations(text) == {SubSeq(text, 1, n) : n \in 0..(Len(text) - 1)}

\* The state file as anything may have left it: none, a snapshot, a snapshot
\* cut short, or a JSON document that is no object.
InitKVAnyFile ==
    /\ pending = EmptyMap
    /\ dirty = FALSE
    /\ fpc = "none"
    /\ data = EmptyMap
    /\ \E m \in Maps :
        /\ \/ file \in {NoFile, [exists |-> TRUE, text |-> JsonDump(m)],
                         [exists |-> TRUE,
                          text |-> << Chunk("array", "", 0) >>]}
           \/ \E t \in Truncations(JsonDump(m)) :
                 file = [exists |-> TRUE, text |-> t]
        /\ committed = IF file.exists /\ JsonValid(file.text)
                       THEN m ELSE EmptyMap
    /\ tmp = NoFile
    /\ rpc = "idle"
    /\ rkey = KeySeq[1]
    /\ getResult = None
    /\ getParsed = "none"
    /\ setHist = committed
    /\ beganSnap = EmptyMap
    /\ getExpected = None
    /\ flushDone = FALSE

\* A single idle store, for the specifications of the other components.
InitKVIdle == InitKV /\ ~file.exists

NextKV ==
    \/ \E k \in Keys, v \in Vals : Set(k, v)
    \/ FlushNotDirty
    \/ FlushTake
    \/ FlushOpen
    \/ FlushWrite
    \/ FlushReplace
    \/ FlushFail
    \/ Crash
    \/ \E k \in Keys : GetAbsent(k)
    \/ \E k \in Keys : GetExists(k)
    \/ GetRead

NextKVAnyFile ==
    \/ \E k \in Keys, v \in Vals : Set(k, v)
    \/ FlushNotDirty
    \/ FlushTake
    \/ FlushOpen
    \/ FlushWrite
    \/ FlushReplace
    \/ FlushFail
    \/ Crash
    \/ \E k \in Keys : GetAbsent(k)
    \/ \E k \in Keys : GetExists(k)
    \/ GetRead
    \/ GetOpenError
    \/ GetRaise
    \/ FlushReadError
    \/ FlushMergeError

\* =========================================================== RobotService
\* Lengths are whole numbers of half-thousandths of a millimetre, so that
\* rounding to three decimals is rounding to an even number; times are clock
\* ticks; speeds are lengths per second.
Points == { << 0, 0, 0 >>, << 6000, 8000, 0 >>, << 1, 2, 3 >> }
NoPose == << >>
NoTime == -1
SyncPeriod == Second
RetryInterval == 5 * Second

Abs(x) == IF x < 0 THEN -x ELSE x

\* The largest r in lo..hi with r * r <= n.
RECURSIVE SqrtBetween(_, _, _)
SqrtBetween(n, lo, hi) ==
    IF lo >= hi THEN lo
    ELSE LET mid == (lo + hi + 1) \div 2 IN
         IF mid * mid <= n THEN SqrtBetween(n, mid, hi)
         ELSE SqrtBetween(n, lo, mid - 1)

\* math.sqrt(dx**2 + dy**2 + dz**2)
Distance(p, q) ==
    LET dx == p[1] - q[1]
        dy == p[2] - q[2]
        dz == p[3] - q[3]
    IN SqrtBetween(dx * dx + dy * dy + dz * dz, 0, Abs(dx) + Abs(dy) + Abs(dz))

\* distance / dt, dt in ticks
Velocity(distance, dt) == (distance * Second) \div dt

\* round(x, 3) of a non-negative x; a tie goes up.
Round3(x) == 2 * ((x + 1) \div 2)

\* TcpVelocityMessage(velocity=round(v, 3), position=Position(round(x, 3), ..))
TcpVelocityMessage(v, xyz) ==
    [velocity |-> Round3(v),
     position |-> << Round3(xyz[1]), Round3(xyz[2]), Round3(xyz[3]) >>]

\* if self._last_pose is None or self._last_time is None
IsFirst == last_pose = NoPose \/ last_time = NoTime

\* Mutant of Stale: only a negative interval is dropped.
StaleNegativeOnly(dt) == dt < 0

\* if dt <= 0: return
Stale(dt) == dt <= 0

\* Mutant of AfterInit: a new RobotService takes over the motion state.
MotionStateKept ==
    [pose |-> last_pose, time |-> last_time, vel |-> last_tcp_velocity]

\* RobotService.__init__: the motion state of a new service.
AfterInit == [pose |-> NoPose, time |-> NoTime, vel |-> 0]

\* The record kept of one call of handle_cartesian_position: the position of
\* the message (NoPose when _extract_xyz returns None), the clock reading,
\* how the call ended, the divisors of the divisions it computed and what
\* became of the register write.
Handled(xyz, out, divisor, sync) ==
    [xyz |-> xyz, t |-> now, out |-> out, divisor |-> divisor, sync |-> sync]

NoMessage == [velocity |-> 0, position |-> NoPose]
NoSample == [xyz |-> NoPose, t |-> NoTime]

\* A well-formed message is handled now: what the history keeps of it.
See(xyz) ==
    /\ seen' = [xyz |-> xyz, t |-> now]
    /\ strict' = (strict /\ (seen = NoSample \/ seen.t < now))

connectVars == << rbPc, incarnation, connects, attemptEnd, lastConnect,
                  disconnectedAfter >>

CanHandle ==
    /\ rbPc = "receiving"
    /\ nhandled < MaxSamples
    /\ nhandled' = nhandled + 1

\* The clock moves on between two steps.
Tick ==
    /\ now < MaxTime
    /\ now' = now + 1
    /\ UNCHANGED << last_pose, last_time, last_tcp_velocity,
                    last_sync_tcp_velocity_time, emitted, nemitted, handled,
                    nhandled, seen, strict, connectVars >>
    /\ UNCHANGED notRobot

\* xyz = self._extract_xyz(message); if xyz is None: return
SampleMalformed ==
    /\ CanHandle
    /\ handled' = Handled(NoPose, "malformed", {}, "none")
    /\ UNCHANGED << now, last_pose, last_time, last_tcp_velocity,
                    last_sync_tcp_velocity_time, emitted, nemitted, seen,
                    strict, connectVars >>
    /\ UNCHANGED notRobot

\* self._last_pose, self._last_time = xyz, now; return
SampleFirst(xyz) ==
    /\ CanHandle
    /\ IsFirst
    /\ last_pose' = xyz
    /\ last_time' = now
    /\ handled' = Handled(xyz, "first", {}, "none")
    /\ See(xyz)
    /\ UNCHANGED << now, last_tcp_velocity, last_sync_tcp_velocity_time,
                    emitted, nemitted, connectVars >>
    /\ UNCHANGED notRobot

\* dt = now - self._last_time; if dt <= 0: return
SampleStale(xyz) ==
    /\ CanHandle
    /\ ~IsFirst
    /\ Stale(now - last_time)
    /\ handled' = Handled(xyz, "stale", {}, "none")
    /\ See(xyz)
    /\ UNCHANGED << now, last_pose, last_time, last_tcp_velocity,
                    last_sync_tcp_velocity_time, emitted, nemitted,
                    connectVars >>
    /\ UNCHANGED notRobot

\* The clock readings of a call that takes no time or one tick.
After == {t \in {now, now + 1} : t <= MaxTime}

\* r_index is an index above 0 and a second has passed since the last write.
WriteDue(ridx) ==
    /\ ridx = "positive"
    /\ now - last_sync_tcp_velocity_time >= SyncPeriod

\* The interval is not dropped: the velocity is computed, the motion state is
\* updated, the register is written when due (wout: "skipped" when no write is
\* due, else "ok" or "fail", the status write_R returns) and the message is
\* handed to self.broadcast.  A division by 0 raises ZeroDivisionError, which
\* handle_robot_message logs.
SampleEmit(xyz, ridx, wout) ==
    /\ CanHandle
    /\ ~IsFirst
    /\ ~Stale(now - last_time)
    /\ (wout = "skipped") <=> ~WriteDue(ridx)
    /\ See(xyz)
    /\ LET dt == now - last_time
           v == Velocity(Distance(xyz, last_pose), dt)
       IN IF dt = 0
          THEN /\ handled' = Handled(xyz, "error", {dt}, "none")
               /\ UNCHANGED << now, last_pose, last_time, last_tcp_velocity,
                               last_sync_tcp_velocity_time, emitted,
                               nemitted >>
          ELSE /\ last_pose' = xyz
               /\ last_time' = now
               /\ last_tcp_velocity' = v
               /\ IF wout = "skipped"
                  THEN UNCHANGED << now, last_sync_tcp_velocity_time >>
                  ELSE \E t \in After :
                          /\ now' = t
                          /\ last_sync_tcp_velocity_time' = t
               /\ emitted' = TcpVelocityMessage(v, xyz)
               /\ nemitted' = nemitted + 1
               /\ handled' = Handled(xyz, "emitted", {dt}, wout)
    /\ UNCHANGED connectVars
    /\ UNCHANGED notRobot

\* The interval is not dropped and the register step raises: SharedState.get
\* or the comparison r_index > 0 (cause "read"), or write_R when a write is
\* due (cause "write").  The exception leaves handle_cartesian_position
\* before self.broadcast is reached; handle_robot_message logs it.
SampleSyncError(xyz, cause) ==
    /\ CanHandle
    /\ ~IsFirst
    /\ ~Stale(now - last_time)
    /\ now - last_time > 0
    /\ cause = "write" => WriteDue("positive")
    /\ See(xyz)
    /\ last_pose' = xyz
    /\ last_time' = now
    /\ last_tcp_velocity' = Velocity(Distance(xyz, last_pose), now - last_time)
    /\ handled' = Handled(xyz, "suppressed", {now - last_time}, cause)
    /\ UNCHANGED << now, last_sync_tcp_velocity_time, emitted, nemitted,
                    connectVars >>
    /\ UNCHANGED notRobot

sampleVars == << last_pose, last_time, last_tcp_velocity,
                 last_sync_tcp_velocity_time, emitted, nemitted, handled,
                 nhandled, seen, strict >>

\* ---- connect_robot
\* One iteration of the while loop: arm.connect returns OK ("ok"), returns
\* another status ("fail") or raises ("raise"); the finally clause runs in
\* every case, on the way out through break and continue too
\* (arm.disconnect()); the loop is left on OK and goes round at once
\* otherwise.
ConnectAttempt(res) ==
    /\ rbPc = "connecting"
    /\ res # "ok" => connects < MaxAttempts
    /\ connects' = connects + 1
    /\ lastConnect' = res
    /\ disconnectedAfter' = res
    /\ \E t \in After :
        /\ now' = t
        /\ attemptEnd' = t
    /\ rbPc' = IF res = "ok" THEN "subscribing" ELSE "connecting"
    /\ UNCHANGED << incarnation, sampleVars >>
    /\ UNCHANGED notRobot

\* sub_pub.connect, subscribe_status, start_receiving: the messages start to
\* arrive, or one of the calls raises and robot_main returns.  The connect
\* loop is over, its history is dropped.
Subscribe(ok) ==
    /\ rbPc = "subscribing"
    /\ rbPc' = IF ok THEN "receiving" ELSE "exited"
    /\ connects' = 0
    /\ attemptEnd' = NoTime
    /\ lastConnect' = "none"
    /\ disconnectedAfter' = "none"
    /\ UNCHANGED << now, incarnation, sampleVars >>
    /\ UNCHANGED notRobot

\* handle_receive_error returns or raises: connect_robot is over, _run logs
\* and the process ends.
ReceiveEnds ==
    /\ rbPc = "receiving"
    /\ rbPc' = "exited"
    /\ UNCHANGED << now, incarnation, connects, attemptEnd, lastConnect,
                    disconnectedAfter, sampleVars >>
    /\ UNCHANGED notRobot

\* The watcher starts a new robot process: robot_main builds a new
\* RobotService and calls connect_robot.
RobotRestart ==
    /\ rbPc = "exited"
    /\ incarnation < MaxIncarnations
    /\ incarnation' = incarnation + 1
    /\ rbPc' = "connecting"
    /\ last_pose' = AfterInit.pose
    /\ last_time' = AfterInit.time
    /\ last_tcp_velocity' = AfterInit.vel
    /\ last_sync_tcp_velocity_time' = now
    /\ seen' = NoSample
    /\ strict' = TRUE
    /\ emitted' = NoMessage
    /\ nemitted' = 0
    /\ handled' = Handled(NoPose, "none", {}, "none")
    /\ UNCHANGED << now, nhandled, connects, attemptEnd, lastConnect,
                    disconnectedAfter >>
    /\ UNCHANGED notRobot

InitRobot ==
    /\ now = 0
    /\ rbPc = "connecting"
    /\ incarnation = 1
    /\ last_pose = NoPose
    /\ last_time = NoTime
    /\ last_tcp_velocity = 0
    /\ last_sync_tcp_velocity_time = 0
    /\ emitted = NoMessage
    /\ nemitted = 0
    /\ handled = Handled(NoPose, "none", {}, "none")
    /\ nhandled = 0
    /\ seen = NoSample
    /\ strict = TRUE
    /\ connects = 0
    /\ attemptEnd = NoTime
    /\ lastConnect = "none"
    /\ disconnectedAfter = "none"

NextRobot ==
    \/ Tick
    \/ SampleMalformed
    \/ \E xyz \in Points : SampleFirst(xyz)
    \/ \E xyz \in Points : SampleStale(xyz)
    \/ \E xyz \in Points, ridx \in {"none", "nonpositive", "positive"},
          wout \in {"skipped", "ok", "fail"} : SampleEmit(xyz, ridx, wout)
    \/ \E xyz \in Points, cause \in {"read", "write"} :
          SampleSyncError(xyz, cause)
    \/ \E res \in {"ok", "fail", "raise"} : ConnectAttempt(res)
    \/ \E ok \in BOOLEAN : Subscribe(ok)
    \/ ReceiveEnds
    \/ RobotRestart

\* ======================================================== specifications
\* The manager, its tasks and its producer processes; the hub is idle.
InitSpecIPC == InitIPC /\ InitHub /\ InitKVIdle /\ InitRobot
SpecIPC == InitSpecIPC /\ [][NextIPC]_vars

\* The manager under any sequence of start() and stop() calls.
InitSpecIPCAnyCalls == InitIPC /\ InitHub /\ InitKVIdle /\ InitRobot
SpecIPCAnyCalls == InitSpecIPCAnyCalls /\ [][NextIPCAnyCalls]_vars

\* The manager with a producer that never stops, under the scheduling of the
\* event loop: a coroutine that holds the loop thread goes on running (weak
\* fairness of the steps of the consumer, and of the resumption of a handler
\* whose I/O is over), and a timer that has expired is served whenever the
\* loop comes round to it (strong fairness of the watcher's poll and of the
\* cancellations: the loop serves its ready queue in order, so a callback
\* that is ready again and again is run).  Nothing obliges the producer to
\* put, nor the application to call start() or stop().
InitSpecIPCStream == InitIPC /\ InitHub /\ InitKVIdle /\ InitRobot
SpecIPCStream ==
    /\ InitSpecIPCStream
    /\ [][NextIPCStream]_vars
    /\ WF_vars(ConsumerEmpty)
    /\ WF_vars(ConsumerGetStream)
    /\ WF_vars(HandlerResumeStream)
    /\ SF_vars(WatcherPoll)
    /\ SF_vars(ConsumerCancelled)
    /\ SF_vars(WatcherCancelled)

\* The hub; no manager has been started.
InitSpecHub ==
    InitIPC /\ isMpProcess = FALSE /\ InitHub /\ InitKVIdle /\ InitRobot
SpecHub == InitSpecHub /\ [][NextHub]_vars

\* The store, its flush thread and a reader.
InitSpecKV ==
    InitIPC /\ isMpProcess = FALSE /\ InitHub /\ InitKV /\ InitRobot
SpecKV == InitSpecKV /\ [][NextKV]_vars

\* The store started on a state file of any content.
InitSpecKVAnyFile ==
    InitIPC /\ isMpProcess = FALSE /\ InitHub /\ InitKVAnyFile /\ InitRobot
SpecKVAnyFile == InitSpecKVAnyFile /\ [][NextKVAnyFile]_vars

\* One robot process after the other: connect_robot and the sample handler.
InitSpecRobot ==
    InitIPC /\ isMpProcess = FALSE /\ InitHub /\ InitKVIdle /\ InitRobot
SpecRobot == InitSpecRobot /\ [][NextRobot]_vars

\* ================================================================ claims
IsPrefix(a, b) == Len(a) <= Len(b) /\ \A i \in 1..Len(a) : a[i] = b[i]

\* The items of a log that went through Queue object q.
FromQueue(log, q) == SelectSeq(log, LAMBDA it : procQ[it.src] = q)

\* C1: the handler is invoked on the items of a channel in the order they
\* were enqueued, without a gap and without a repeat, and a handler call has
\* ended before the next one starts (at most one call is in flight, and only
\* while the consumer is suspended in it).
C1_FifoDelivery ==
    /\ \A q \in QIds : IsPrefix(FromQueue(startLog, q), FromQueue(enqLog, q))
    /\ \A i, j \in 1..Len(startLog) : i # j => startLog[i] # startLog[j]
    /\ Len(endLog) \in {Len(startLog) - 1, Len(startLog)}
    /\ Len(endLog) < Len(startLog) => consumer_task.pc = "handling"

\* Two items of one channel were handled, one after the other.
C1_Witness ==
    /\ Len(startLog) = 2
    /\ Len(endLog) = 2
    /\ procQ[startLog[1].src] = procQ[startLog[2].src]
    /\ startLog[1].id < startLog[2].id

\* C2: once the watcher has polled after the death of the stored process,
\* and the factory did not raise, the stored process is a live replacement
\* (the restart happens at the first poll after the death); a dead process is
\* replaced by at most one new process; the replacement writes to the queue
\* of the process it replaces, which is the queue the consumer reads.
C2_RestartOnce ==
    /\ (proc # 0 /\ ~procAlive[proc]) => lastTick \in {"none", "failed"}
    /\ lastTick = "restarted" => procPred[proc] # 0 /\ procAlive[proc]
    /\ \A p1, p2 \in 1..spawned :
        (p1 # p2 /\ procPred[p1] # 0) => procPred[p1] # procPred[p2]
    /\ \A p \in 1..spawned :
        procPred[p] # 0 => (procPred[p] < p /\ procQ[p] = procQ[procPred[p]])
    /\ mgrPc = "running" => procQ[proc] = consumer_task.q

\* The handler was given a message of a replacement, which is still alive.
C2_Witness ==
    /\ mgrPc = "running"
    /\ lastTick = "restarted"
    /\ \E i \in 1..Len(startLog) : startLog[i].src = proc

\* C3: a step in which the watcher spawns a replacement changes the stored
\* process and nothing else of the manager: the queue object and its content,
\* the consumer task and the identity of the watcher task stay, no start()
\* is counted, and the replacement is given the same queue.
C3_RestartInPlace ==
    [][(mgrPc = "running" /\ mgrPc' = "running" /\ spawned' > spawned) =>
          /\ queue' = queue
          /\ chan' = chan
          /\ consumer_task' = consumer_task
          /\ consumer_task.pc # "done"
          /\ watcher_task'.id = watcher_task.id
          /\ watcher_task'.pc = "sleeping"
          /\ starts' = starts
          /\ procQ'[proc'] = consumer_task.q
          /\ procQ'[proc'] = queue]_vars

\* Two restarts in one start(): the third process replaces the second, which
\* replaced the first, and the tasks of that start() are still there.
C3_Witness ==
    /\ mgrPc = "running"
    /\ starts = 1
    /\ spawned = 3
    /\ procPred[3] = 2
    /\ procPred[2] = 1
    /\ consumer_task.id = 1
    /\ watcher_task.id = 1

\* C7 (as claimed): when stop() has returned the stored process is not alive.
C7_StoppedProcessDead ==
    mgrPc = "stopped" => (proc = 0 \/ ~procAlive[proc])

\* C8: when stop() has returned both tasks have finished, the process it
\* looked at is the stored one, which is the one stored when the tasks were
\* cancelled and the last one spawned; from then on (until another start())
\* no handler call starts and no process is spawned.
C8_StopQuiesces ==
    [][/\ mgrPc' = "stopped" =>
            /\ consumer_task'.pc = "done"
            /\ watcher_task'.pc = "done"
            /\ stopTarget' = proc'
            /\ proc' = procAtCancel'
            /\ proc' = spawned'
       /\ (mgrPc = "stopped" /\ mgrPc' = "stopped") =>
            /\ startLog' = startLog
            /\ endLog' = endLog
            /\ spawned' = spawned
            /\ proc' = proc
            /\ lastTick' \in {lastTick, "none"}]_vars

\* stop() has returned with an item left in the channel and the producer dead.
C8_Witness ==
    /\ mgrPc = "stopped"
    /\ chan[queue] # << >>
    /\ ~procAlive[proc]
    /\ procPred[proc] # 0

\* C9: a poll in which the factory raises leaves the stored process and the
\* process table as they were and the watcher asleep for its next poll; the
\* next poll that changes anything is a restart (never a poll that finds the
\* process alive); the watcher task ends only when it was cancelled.
C9_FailedRestartRetried ==
    [][/\ (lastTick' = "failed" /\ lastTick # "failed") =>
            /\ proc' = proc
            /\ procAlive' = procAlive
            /\ spawned' = spawned
            /\ watcher_task'.pc = "sleeping"
       /\ (lastTick = "failed" /\ lastTick' # "failed") =>
            \/ lastTick' = "restarted" /\ procPred'[proc'] = proc
            \/ mgrPc # "running" /\ mgrPc' = "running"
       /\ watcher_task'.pc = "done" => watcher_task'.cancel]_vars

\* The factory raised at the last poll; the watcher waits for the next one.
C9_Witness ==
    /\ mgrPc = "running"
    /\ lastTick = "failed"
    /\ watcher_task.pc = "sleeping"
    /\ ~procAlive[proc]

\* C4: a socket whose send failed in a broadcast that has returned is not in
\* the subscriber set unless it was registered again, and a broadcast in
\* progress has no such socket in its snapshot.
C4_FailedPruned ==
    /\ failedRet \cap clients = {}
    /\ bpc = "sending" => Range(snapshot) \cap failedRet = {}

\* A broadcast is sending while a socket that failed earlier is still out.
C4_Witness ==
    /\ bpc = "sending"
    /\ failedRet # {}
    /\ Len(snapshot) >= 2

\* C10: a broadcast that raised made no send at all (it failed in
\* json.dumps); one that returned has sent exactly once to every member of
\* its snapshot and to nobody else, whichever sends failed; while it is
\* sending, exactly the members up to the current one have had their send.
C10_FailureIsolated ==
    /\ bresult = "raised" => attempts = NoAttempts /\ to_remove = << >>
    /\ (bpc = "idle" /\ bresult = "returned") =>
        \A w \in WS : attempts[w] = IF w \in Range(snapshot) THEN 1 ELSE 0
    /\ bpc = "sending" =>
        \A w \in WS :
            attempts[w] = IF \E i \in 1..idx : snapshot[i] = w THEN 1 ELSE 0
    /\ Range(to_remove) \subseteq Range(snapshot)

\* The send to the first member failed and the broadcast returned, every
\* member having been sent to.
C10_Witness ==
    /\ bpc = "idle"
    /\ bresult = "returned"
    /\ Len(snapshot) >= 2
    /\ Len(to_remove) >= 1
    /\ to_remove[1] = snapshot[1]
    /\ \A i \in 1..Len(snapshot) : attempts[snapshot[i]] = 1

\* C5: a get that runs now returns, for every key, the last value passed to
\* set before the last completed flush began (the value the file started
\* with when there was none), whatever is pending; and so did the last get.
C5_GetSeesFlushed ==
    /\ \A k \in Keys : GetValue(file, k) = committed[k]
    /\ getResult = getExpected

\* A flush has completed, a newer value of the key is pending, and a get of
\* that key returned the flushed one.
C5_Witness ==
    /\ flushDone
    /\ rpc = "idle"
    /\ dirty
    /\ pending[rkey] # None
    /\ getResult # None
    /\ getResult # pending[rkey]
    /\ getResult = committed[rkey]
    /\ getParsed = "ok"

\* C6: the canonical file is absent or holds a complete JSON object, and no
\* get has read a text json.load rejects.
C6_FileAlwaysValid ==
    /\ file.exists => JsonValid(file.text)
    /\ getParsed # "error"

\* A get has opened the file while the flush is in the middle of its write.
C6_Witness ==
    /\ rpc = "open"
    /\ fpc = "writing"
    /\ tmp.exists
    /\ Len(tmp.text) >= 1
    /\ ~JsonValid(tmp.text)
    /\ file.exists

\* C11: a broadcast called while the subscriber set is empty does nothing: the
\* message is not serialized (json.dumps is not called) and the call does not
\* raise, whatever the message is.
C11_EmptyBroadcastNoOp ==
    called_empty => (dumps = "none" /\ bresult # "raised")

\* C16: an exception raised by the handler does not end the consumer loop (the
\* consumer task ends only by cancellation); the item it was raised on is
\* dropped, it is neither put back on a channel nor handed to the handler
\* again; and the items handled after it are still the enqueued ones in
\* their order.
C16_HandlerErrorSwallowed ==
    /\ consumer_task.pc = "done" => consumer_task.cancel
    /\ \A i \in 1..Len(endLog) : endLog[i] = "raise" =>
        /\ \A q \in QIds : \A n \in 1..Len(chan[q]) : chan[q][n] # startLog[i]
        /\ \A j \in 1..Len(startLog) : j # i => startLog[j] # startLog[i]
        /\ IsPrefix(FromQueue(startLog, procQ[startLog[i].src]),
                    FromQueue(enqLog, procQ[startLog[i].src]))

\* The handler raised on an item and the next item of the same channel was
\* handed to it afterwards, by the same consumer task.
C16_Witness ==
    /\ Len(endLog) = 2
    /\ endLog[1] = "raise"
    /\ procQ[startLog[1].src] = procQ[startLog[2].src]
    /\ startLog[2].id > startLog[1].id
    /\ starts = 1

\* C17: from the return of a start() to the call of the following stop(), at
\* most one process spawned by the manager is alive, and a live one is the
\* process stored in self._proc.
C17_OneLiveProducer ==
    mgrPc = "running" => \A p \in PIds : procAlive[p] => p = proc

\* C15: whatever the state file holds, get does not raise and returns the
\* default when the file is no JSON object, and a flush that finds pending
\* entries does not raise: it goes on to write the pending entries merged
\* over what it could read (over the empty map when the file is no JSON
\* object); the flush thread does not die of what it reads.
C15_FileContentTolerated ==
    [][/\ getParsed' # "raised"
       /\ (rpc = "open" /\ rpc' = "idle" /\ ~JsonValid(file.text))
              => getResult' = None
       /\ (fpc = "sleep" /\ dirty /\ fpc' \notin {"sleep", "none"})
              => (fpc' = "open"
                  /\ data' = Merge(ReadExisting(file), pending))]_vars

\* A call of handle_cartesian_position on a well-formed message.
ValidSampleStep == nhandled' = nhandled + 1 /\ handled'.xyz # NoPose

\* C12: a sample that comes no later than the stored last time (dt <= 0) is
\* dropped: nothing is handed to self.broadcast and the last position, last
\* time, last velocity and last register-write time stay as they are; and no
\* call ever divides by a dt that is not positive.
C12_StaleSampleDropped ==
    [][nhandled' = nhandled + 1 =>
        /\ \A d \in handled'.divisor : d > 0
        /\ (/\ handled'.xyz # NoPose
            /\ last_pose # NoPose
            /\ last_time # NoTime
            /\ handled'.t - last_time <= 0)
           => /\ UNCHANGED << last_pose, last_time, last_tcp_velocity,
                              last_sync_tcp_velocity_time >>
              /\ nemitted' = nemitted
              /\ emitted' = emitted]_vars

\* A sample was dropped for its dt of 0 after a message had been emitted.
C12_Witness ==
    /\ handled.out = "stale"
    /\ handled.t = last_time
    /\ nemitted >= 1

\* C13: the first well-formed sample a robot process handles (the first one
\* after a restart included) only stores its position and time: nothing is
\* handed to self.broadcast, the velocity and the register-write time stay.
C13_FirstSampleOnlyStored ==
    [][(ValidSampleStep /\ seen = NoSample) =>
        /\ last_pose' = handled'.xyz
        /\ last_time' = handled'.t
        /\ UNCHANGED << last_tcp_velocity, last_sync_tcp_velocity_time >>
        /\ nemitted' = nemitted
        /\ emitted' = emitted]_vars

\* The second robot process has handled its first sample, after the first
\* process had handled two.
C13_Witness ==
    /\ incarnation = 2
    /\ nhandled = 3
    /\ handled.out = "first"
    /\ last_pose = handled.xyz
    /\ nemitted = 0

\* C14: when the samples of a process come at strictly increasing clock
\* readings, every sample after the first hands to self.broadcast a message
\* whose velocity is the distance to the sample before divided by the time
\* between the two, rounded to 3 decimals, and whose position is the sample's
\* own, rounded to 3 decimals.
C14_VelocityEmitted ==
    [][(ValidSampleStep /\ seen # NoSample /\ strict /\ seen.t < handled'.t)
        => /\ nemitted' = nemitted + 1
           /\ emitted' =
                [velocity |-> Round3(Velocity(Distance(handled'.xyz, seen.xyz),
                                               handled'.t - seen.t)),
                 position |-> << Round3(handled'.xyz[1]),
                                 Round3(handled'.xyz[2]),
                                 Round3(handled'.xyz[3]) >>]]_vars

\* C19: every accepted sample (well-formed, not the first, dt > 0) hands a
\* message to self.broadcast, whatever the register step does.
C19_SyncNeverSuppresses ==
    [][(/\ ValidSampleStep
        /\ last_pose # NoPose
        /\ last_time # NoTime
        /\ handled'.t - last_time > 0)
       => nemitted' = nemitted + 1]_vars

\* C20: a failed arm.connect does not end connect_robot, the loop is left only
\* after a successful one, and an attempt that follows a failed one starts no
\* sooner than the retry interval after the failed one ended.
C20_RetryWaits ==
    [][connects' = connects + 1 =>
        /\ lastConnect' # "ok" => rbPc' = "connecting"
        /\ rbPc' # "connecting" => lastConnect' = "ok"
        /\ connects > 0 => now >= attemptEnd + RetryInterval]_vars

LiveTask(t) == t.pc \notin {"none", "done"}

\* C18: whatever the sequence of start() and stop() calls, the manager never
\* has more than one consumer task, one watcher task or one live producer
\* process, and once stop() has returned no task it created is still
\* running and no process it spawned is alive.
C18_OneOfEachAndStopped ==
    /\ ~(LiveTask(consumer_task) /\ LiveTask(orphan_consumer))
    /\ ~(LiveTask(watcher_task) /\ LiveTask(orphan_watcher))
    /\ Cardinality({p \in PIds : procAlive[p]}) <= 1
    /\ mgrPc = "stopped" =>
        /\ ~LiveTask(consumer_task) /\ ~LiveTask(orphan_consumer)
        /\ ~LiveTask(watcher_task) /\ ~LiveTask(orphan_watcher)
        /\ \A p \in PIds : ~procAlive[p]

\* C21: while a broadcast is suspended in a send the subscriber lock is free
\* and register_client and unregister_client can run to their end; the
\* snapshot is the subscriber set at the moment the broadcast took it and
\* does not change afterwards, and the sends of the broadcast go to the
\* members of the snapshot only, whoever was registered or unregistered
\* since.
C21_SendsOutsideLock ==
    [][/\ bpc' = "sending" => clients_lock' = "free"
       /\ (bpc = "idle" /\ bpc' = "sending") =>
            /\ Range(snapshot') = clients
            /\ Len(snapshot') = Cardinality(clients)
       /\ bpc = "sending" =>
            /\ \A w \in WS : ENABLED RegisterClient(w)
            /\ \A w \in clients : ENABLED UnregisterClient(w)
            /\ snapshot' = snapshot
            /\ \A w \in WS : attempts'[w] > attempts[w]
                                => w \in Range(snapshot)]_vars

\* A broadcast has returned after a socket was registered and another one
\* unregistered during its sends: the new one got no send, the one that
\* left got its send.
C21_Witness ==
    /\ bpc = "idle"
    /\ bresult = "returned"
    /\ \E w \in clients \ Range(snapshot) : attempts[w] = 0
    /\ \E v \in Range(snapshot) \ clients :
          attempts[v] = 1 /\ v \notin Range(to_remove)

\* C22: a set that runs while a flush is between the release of the lock and
\* the rename is not lost.  Its value is in the pending buffer with the dirty
\* flag set, and stays there until a flush takes it; the rename leaves the
\* buffer and the flag alone; and the file a flush puts in place holds, for
\* every key, the last value set before that flush began, so the flush after
\* writes the value set during this one and keeps every key the file already
\* had.
C22_SetDuringFlushKept ==
    [][/\ fpc \in {"open", "writing"} =>
            /\ \A k \in Keys : setHist'[k] # setHist[k] /\ fpc' = fpc
                                  => pending'[k] = setHist'[k] /\ dirty'
            /\ fpc' \in {"open", "writing", "sleep"} =>
                  \A k \in Keys : pending[k] # None
                                     => pending'[k] # None /\ dirty'
       /\ (fpc = "writing" /\ fpc' = "sleep") =>
            /\ pending' = pending
            /\ dirty' = dirty
            /\ \A k \in Keys : JsonLoad(file'.text)[k] = beganSnap[k]
            /\ \A k \in Keys : file.exists /\ JsonLoad(file.text)[k] # None
                                  => JsonLoad(file'.text)[k] # None]_vars

\* A second flush is writing: the first one put a key in the file, the other
\* key was set since and is in the data being written next to the first one,
\* and a further set has run during this flush and is pending.
C22_Witness ==
    /\ flushDone
    /\ fpc = "writing"
    /\ file.exists
    /\ JsonLoad(file.text)[KeySeq[1]] # None
    /\ JsonLoad(file.text)[KeySeq[2]] = None
    /\ data[KeySeq[1]] = JsonLoad(file.text)[KeySeq[1]]
    /\ data[KeySeq[2]] # None
    /\ dirty
    /\ pending[KeySeq[2]] # None
    /\ pending[KeySeq[2]] # data[KeySeq[2]]

\* C23: no value passed to set is lost by a failed flush, and the flusher
\* survives it.  The last value set for a key is on disk, or in the pending
\* buffer, or in the data of a flush in progress, and the flush thread is
\* alive, so that a later flush can persist it.
C23_FailedFlushKeepsValues ==
    /\ fpc # "dead"
    /\ \A k \in Keys :
          setHist[k] # None =>
             \/ GetValue(file, k) = setHist[k]
             \/ pending[k] = setHist[k] /\ dirty
             \/ fpc \in {"open", "writing"} /\ data[k] = setHist[k]

\* C24: the consumer loop never starves the other cooperative tasks.  Again
\* and again the loop thread is free of the consumer, so that the watcher's
\* next poll, a pending register_client and a pending stop() get their turn,
\* also when the producer keeps the channel non-empty and the handler
\* completes without suspending.
C24_ConsumerNeverStarves == []<>LoopFree

\* C25: when connect_robot has left its retry loop and goes on to subscribe,
\* the arm is connected: the last arm.disconnect() did not follow the attempt
\* that succeeded.
C25_ConnectedWhenSubscribing ==
    rbPc = "subscribing" => disconnectedAfter # "ok"

====
